---- MODULE Spec2Model ----
(***************************************************************************)
(* Model of the angle-decoding pipeline: the path resolver                 *)
(* (scripts/config.py), the decoding aggregator                            *)
(* (scripts/run_decod_angles.py) and the bias/significance report          *)
(* (scripts/plot_decod_angles_bias.py).                                    *)
(*                                                                         *)
(* Strings that the code builds by concatenation are sequences of pieces   *)
(* ('a' + 'b' is <<"a">> \o <<"b">>), a path is the sequence of its        *)
(* '/'-separated components, the empty string is the component << >>.      *)
(***************************************************************************)
EXTENDS Integers, Sequences, FiniteSets, TLC

VARIABLES
    base_path,  \* config.base_path, fixed when the module is imported
    inputs,     \* the pickled per-(analysis, subject) input artifacts
    dirs,       \* the directories that exist
    store,      \* the artifacts written by pickle.dump
    pc,         \* position of the aggregator script
    a,          \* index of the analysis being processed
    s,          \* index of the subject being processed
    results,    \* the results mapping of the current analysis
    times,      \* the script's variable times (<< >> while unbound)
    bins,       \* the script's variable bins (<< >> while unbound)
    err,        \* the uncaught exception that ended the aggregator, if any
    lastPath,   \* the latest call of paths: its arguments and its outcome
    trace,      \* the loads and dumps performed so far, in order
    artifact,   \* the score artifact the reporting stage loads
    rep         \* the state of the reporting script

aggVars == <<base_path, inputs, dirs, store, pc, a, s, results, times, bins,
             err, lastPath, trace>>
vars == <<base_path, inputs, dirs, store, pc, a, s, results, times, bins,
          err, lastPath, trace, artifact, rep>>

----------------------------------------------------------------------------
(* Bounds *)

NSubjects == 2   \* how many of the 20 subjects of config.subjects are run
NTimes == 3      \* number of time samples of a classifier output

----------------------------------------------------------------------------
(* Generic helpers *)

Front(q) == SubSeq(q, 1, Len(q) - 1)
Last(q) == q[Len(q)]

RECURSIVE SortedSeq(_)
SortedSeq(S) ==
    IF S = {} THEN << >>
    ELSE LET m == CHOOSE x \in S : \A y \in S : x <= y
         IN <<m>> \o SortedSeq(S \ {m})

Range(q) == {q[i] : i \in DOMAIN q}

----------------------------------------------------------------------------
(* scripts/config.py *)

AllSubjects ==
    << "ak130184", "el130086", "ga130053", "gm130176", "hn120493",
       "ia130315", "jd110235", "jm120476", "ma130185", "mc130295",
       "mj130216", "mr080072", "oa130317", "rg110386", "sb120316",
       "tc120199", "ts130283", "yp130276", "av130322", "ps120458" >>

subjects == SubSeq(AllSubjects, 1, NSubjects)

\* The empty string, as a path.
EmptyPath == << << >> >>

\* base_path = op.dirname(op.dirname(__file__)): '' or '.' when the module
\* is found through a relative sys.path entry, absolute otherwise.
BasePaths == { EmptyPath, << <<".">> >>, << << >>, <<"home">>, <<"meg">> >> }

\* op.join(a, b) for a relative b.
Join(p, q) ==
    IF p = EmptyPath THEN q
    ELSE IF Last(p) = << >> THEN Front(p) \o q
    ELSE p \o q

\* os.path.dirname
Dirname(p) == IF Len(p) = 1 THEN EmptyPath ELSE Front(p)

data_path(base) == Join(base, << <<"data">>, << >> >>)

\* pyscript.strip('.py') + '.log' for the default pyscript 'config.py'
LogName == <<"config", ".log">>

\* The dict built at the top of paths().
path_template(base, typ, subject, data_type, lock, analysis) ==
    LET this_path == Join(Join(data_path(base), <<<<subject>>>>), <<<<typ>>>>)
        pickled == <<subject, "_", lock, "_", data_type, "_">> \o analysis
                       \o <<".pickle">>
    IN  [ base_path  |-> base,
          data_path  |-> data_path(base),
          report     |-> Join(base, <<<<"results">>>>),
          log        |-> Join(base, <<LogName>>),
          behavior   |-> Join(this_path, <<<<subject, "_fixed.mat">>>>),
          epoch      |-> Join(this_path, << <<subject, "_", lock, "_",
                                              data_type, ".mat">> >>),
          evoked     |-> Join(this_path, <<pickled>>),
          decod      |-> Join(this_path, <<pickled>>),
          generalize |-> Join(this_path, <<pickled>>) ]

TemplateKeys ==
    { "base_path", "data_path", "report", "log", "behavior", "epoch",
      "evoked", "decod", "generalize" }

\* os.path.exists: '' never exists, '.' always does.
Exists(p, d) == p # EmptyPath /\ (p = << <<".">> >> \/ p \in d)

\* Whether os.mkdir(p) succeeds: p is not '', is not there yet, and its
\* parent is there (a relative one-component path lies in the working
\* directory).
MkdirOk(p, d) ==
    /\ p # EmptyPath
    /\ ~Exists(p, d)
    /\ (Len(p) = 1 \/ Exists(Front(p), d))

\* The "Create subfolder if necessary" loop: n iterations left, folder_ the
\* list being folded, d the directories that exist.
RECURSIVE CreateSubfolders(_, _, _)
CreateSubfolders(n, folder_, d) ==
    IF n = 0 THEN [dirs |-> d, err |-> "", made |-> << >>]
    ELSE
      LET head == folder_[1]
          missing == ~Exists(head, d)
      IN IF missing /\ ~MkdirOk(head, d)
         THEN [dirs |-> d, err |-> "OSError", made |-> << >>]
         ELSE
           LET d2 == IF missing THEN d \cup {head} ELSE d
               f2 == IF Len(folder_) > 1
                     THEN <<head \o folder_[2]>> \o SubSeq(folder_, 3, Len(folder_))
                     ELSE folder_
               rest == CreateSubfolders(n - 1, f2, d2)
           IN [rest EXCEPT !.made = (IF missing THEN <<head>> ELSE << >>) \o @]

\* folder.split('/') if folder != '' else []
SplitFolder(folder) ==
    IF folder = EmptyPath THEN << >>
    ELSE [i \in 1..Len(folder) |-> <<folder[i]>>]

\* paths(typ, subject, data_type, lock, analysis) with log=False: the file,
\* the directories after the call, the exception raised if any, and the
\* directories made, in order.
paths(base, typ, subject, data_type, lock, analysis, d) ==
    IF typ \notin TemplateKeys
    THEN [file |-> EmptyPath, dirs |-> d, err |-> "KeyError", made |-> << >>]
    ELSE
      LET file == path_template(base, typ, subject, data_type, lock, analysis)[typ]
          folder_ == SplitFolder(Dirname(file))
          r == CreateSubfolders(Len(folder_), folder_, d)
      IN [file |-> file, dirs |-> r.dirs, err |-> r.err, made |-> r.made]

\* A call of paths as the scripts make it: data_type and lock at their
\* defaults.
PathsCall(typ, subject, analysis) ==
    LET r == paths(base_path, typ, subject, "erf", "target", analysis, dirs)
    IN [typ |-> typ, subject |-> subject, analysis |-> analysis,
        file |-> r.file, err |-> r.err, made |-> r.made, dirs |-> r.dirs]

----------------------------------------------------------------------------
(* Values and arrays *)

\* A number that is not NaN is kept symbolically: the function that
\* produced it, the classifier output it was computed from, the trials
\* selected, and the time window (0 when there is none).
Val(op, g, sel, toi) == [nan |-> FALSE, v |-> <<op, g, sel, toi>>]

\* np.nan
NaN == [nan |-> TRUE, v |-> << >>]

\* An array all of whose entries were produced the same way: its shape and
\* the description of its entries.
Arr(shape, fill) == [shape |-> shape, fill |-> fill]

----------------------------------------------------------------------------
(* scripts/run_decod_angles.py *)

analysis_names == << <<"target_circAngle">>, <<"probe_circAngle">> >>

\* Time windows of interest, in ms.
tois == << <<-100, 50>>, <<100, 250>>, <<300, 800>>, <<900, 1050>> >>

n_bins == 24

\* The trial-metadata tables (events.iloc[events_sel]) an input artifact may
\* hold: every visibility rating present; unseen trials only; no trial with
\* the target present.
Trial(b, p, ang) == [detect_button |-> b, target_present |-> p, angle |-> ang]

EventTables ==
    { << Trial(0, TRUE, 1), Trial(1, TRUE, 2), Trial(2, TRUE, 1),
         Trial(3, TRUE, 2), Trial(0, FALSE, 1) >>,
      << Trial(0, TRUE, 1), Trial(0, FALSE, 2) >>,
      << Trial(0, FALSE, 1), Trial(1, FALSE, 1) >> }

\* A query over the events table: the ratings and the presence values it
\* accepts.
Query(buttons, present) == [buttons |-> buttons, present |-> present]

\* subevents.query(q).index
QueryIndex(events, q) ==
    SortedSeq({ i \in 1..Len(events) :
                  /\ events[i].detect_button \in q.buttons
                  /\ events[i].target_present \in q.present })

\* The named subselections: (name, query).
subscores ==
    << <<"seen", Query(1..3, {TRUE})>>,
       <<"unseen", Query({0}, {TRUE})>>,
       <<"absent", Query(0..3, {FALSE})>> >>

\* 'detect_button == %i and target_present == True'
PasQuery(pas) == Query({pas}, {TRUE})

\* 'target_present == True'
PresentQuery == Query(0..3, {TRUE})

\* The classifier output of the current (analysis, subject) and its trials.
Gat == <<analysis_names[a][1], subjects[s]>>
Subevents == inputs[a][s]
AllTrials(events) == [i \in 1..Len(events) |-> i]

ResultKeys ==
    { "diagonal", "angle_pred", "toi", "subscore", "corr_contrast",
      "corr_pas", "R_contrast", "R_vis", "align_on_diag", "early_maintain",
      "R_vis_duration" }

\* results = dict(diagonal=list(), ...)
NewResults == [k \in ResultKeys |-> << >>]

NoError == [kind |-> "", at |-> ""]
NoPath == [typ |-> "", subject |-> "", analysis |-> << >>, file |-> EmptyPath,
           err |-> "", made |-> << >>]

PathRecord(r) == [typ |-> r.typ, subject |-> r.subject, analysis |-> r.analysis,
                  file |-> r.file, err |-> r.err, made |-> r.made]

\* The script dies with an uncaught exception.
Raise(kind, at) ==
    /\ pc' = "error"
    /\ err' = [kind |-> kind, at |-> at]

\* for analysis in [...]: results = dict(...); for s, subject in ...
BeginAnalysis ==
    /\ pc = "begin"
    /\ results' = NewResults
    /\ s' = 1
    /\ pc' = "load"
    /\ UNCHANGED <<base_path, inputs, dirs, store, a, times, bins, err,
                   lastPath, trace, artifact, rep>>

\* fname = paths('decod', ...); pickle.load; times = ...; subevents = ...
Load ==
    /\ pc = "load"
    /\ LET r == PathsCall("decod", subjects[s], analysis_names[a])
       IN /\ lastPath' = PathRecord(r)
          /\ dirs' = r.dirs
          /\ IF r.err # ""
             THEN /\ Raise(r.err, "load")
                  /\ UNCHANGED <<times, trace>>
             ELSE /\ times' = [i \in 1..NTimes |-> i]
                  /\ trace' = Append(trace, <<"load", a, s>>)
                  /\ pc' = "diagonal"
                  /\ err' = err
    /\ UNCHANGED <<base_path, inputs, store, a, s, results, bins, artifact, rep>>

\* An append that leaves out a subject one of whose subselections is empty.
AppendToUnlessEmpty(key, entry) ==
    IF /\ key = "subscore"
       /\ \E k \in DOMAIN entry : k[2] = "" /\ entry[k].fill.nan
    THEN results
    ELSE [results EXCEPT ![key] = Append(@, entry)]

\* results[key].append(entry)
AppendTo(key, entry) == [results EXCEPT ![key] = Append(@, entry)]

\* Mean error across trial on the diagonal
DiagonalEntry(g, events) ==
    Arr(<<Len(times)>>, Val("angle_acc", g, AllTrials(events), 0))

Diagonal ==
    /\ pc = "diagonal"
    /\ results' = AppendTo("diagonal", DiagonalEntry(Gat, Subevents))
    /\ pc' = "angle_pred"
    /\ UNCHANGED <<base_path, inputs, dirs, store, a, s, times, bins, err,
                   lastPath, trace, artifact, rep>>

\* Mean prediction for each angle at peak time: one tuning curve per value
\* of np.unique(gat.y_true_).
AnglePredEntry(g, events) ==
    LET angles == SortedSeq({events[i].angle : i \in 1..Len(events)})
    IN [j \in 1..Len(angles) |->
          Arr(<<n_bins>>,
              Val("circ_tuning", g,
                  SortedSeq({i \in 1..Len(events) : events[i].angle = angles[j]}),
                  0))]

\* The bins returned by circ_tuning(..., n=n_bins).
Bins == Arr(<<n_bins>>, Val("bins", <<"", "">>, << >>, 0))

AnglePred ==
    /\ pc = "angle_pred"
    /\ results' = AppendTo("angle_pred", AnglePredEntry(Gat, Subevents))
    /\ bins' = IF Len(Subevents) = 0 THEN bins ELSE Bins
    /\ pc' = "toi"
    /\ UNCHANGED <<base_path, inputs, dirs, store, a, s, times, err,
                   lastPath, trace, artifact, rep>>

\* Mean tuning error per toi
ToiEntry(g, events) ==
    [t \in 1..Len(tois) |->
        Arr(<<n_bins>>, Val("circ_tuning", g, AllTrials(events), t))]

Toi ==
    /\ pc = "toi"
    /\ results' = AppendTo("toi", ToiEntry(Gat, Subevents))
    /\ bins' = Bins
    /\ pc' = "subscore"
    /\ UNCHANGED <<base_path, inputs, dirs, store, a, s, times, err,
                   lastPath, trace, artifact, rep>>

\* The empty branch with its `continue` ahead of the loop over tois.
SubscoreEmptyNoToi(n_times) ==
    [dyn |-> Arr(<<n_times>>, NaN),
     toi |-> << >>]

\* The two entries stored for a subselection that matches no trial:
\* np.nan * np.zeros(y_error.shape[1]) and one np.nan per toi.
SubscoreEmpty(n_times) ==
    [dyn |-> Arr(<<n_times>>, NaN),
     toi |-> [t \in 1..Len(tois) |-> NaN]]

\* The two entries stored for a subselection that matches the trials subsel:
\* angle_acc(y_error[subsel, :], axis=0) and, per toi, the accuracy of the
\* selected trials' mean error in the window.
SubscoreMatched(g, subsel, n_times) ==
    [dyn |-> Arr(<<n_times>>, Val("angle_acc", g, subsel, 0)),
     toi |-> [t \in 1..Len(tois) |-> Val("angle_acc", g, subsel, t)]]

\* The keys name and name + '_toi' of the per-subject mapping.
SubscoreKey(name, suffix) == <<name, suffix>>

\* Mean y_error per toi per vis: the mapping results_ built by the loop over
\* subscores (a later subanalysis of the same name overwrites an earlier
\* one).
SubscoreEntry(g, events, n_times) ==
    LET names == {subscores[i][1] : i \in DOMAIN subscores}
        keys == {SubscoreKey(n, sfx) : n \in names, sfx \in {"", "_toi"}}
        lastOf(n) == CHOOSE i \in DOMAIN subscores :
                        /\ subscores[i][1] = n
                        /\ \A j \in DOMAIN subscores :
                              subscores[j][1] = n => j <= i
        pair(n) == LET subsel == QueryIndex(events, subscores[lastOf(n)][2])
                   IN IF Len(subsel) = 0
                      THEN SubscoreEmpty(n_times)
                      ELSE SubscoreMatched(g, subsel, n_times)
    IN [k \in keys |-> IF k[2] = "" THEN pair(k[1]).dyn ELSE pair(k[1]).toi]

Subscore ==
    /\ pc = "subscore"
    /\ results' = AppendTo("subscore", SubscoreEntry(Gat, Subevents, Len(times)))
    /\ pc' = "duration"
    /\ UNCHANGED <<base_path, inputs, dirs, store, a, s, times, bins, err,
                   lastPath, trace, artifact, rep>>

\* Duration, one visibility rating of one toi: NaNs if no trial matches
\* 'detect_button == pas and target_present == True', else the mean error
\* of the matching trials.
DurationPas(g, events, t, pas, n_times) ==
    LET sel == QueryIndex(events, PasQuery(pas))
    IN IF Len(sel) = 0
       THEN Arr(<<n_times>>, NaN)
       ELSE Arr(<<n_times>>, Val("angle_acc", g, sel, t))

\* results_: per toi, the four ratings.
AlignOnDiagEntry(g, events, n_times) ==
    [t \in 1..Len(tois) |->
        [p \in 1..4 |-> DurationPas(g, events, t, p - 1, n_times)]]

\* R_vis_duration: per toi, repeated_spearman over the trials matching
\* 'target_present == True', with no test of whether any trial matches.
RVisDurationEntry(g, events, n_times) ==
    LET sel == QueryIndex(events, PresentQuery)
    IN [t \in 1..Len(tois) |->
          Arr(<<n_times>>, Val("repeated_spearman", g, sel, t))]

\* With no trial matching 'target_present == True' the correlation is
\* called on an empty trial set: the libraries either raise (reshape of an
\* empty array to (0, -1)) or return a value.
Duration ==
    /\ pc = "duration"
    /\ \/ /\ results' = [results EXCEPT
                 !["align_on_diag"] =
                     Append(@, AlignOnDiagEntry(Gat, Subevents, Len(times))),
                 !["R_vis_duration"] =
                     Append(@, RVisDurationEntry(Gat, Subevents, Len(times)))]
          /\ pc' = "early_maintain"
          /\ err' = err
       \/ /\ Len(QueryIndex(Subevents, PresentQuery)) = 0
          /\ Raise("ValueError", "duration")
          /\ results' = results
    /\ UNCHANGED <<base_path, inputs, dirs, store, a, s, times, bins,
                   lastPath, trace, artifact, rep>>

\* maintenance of early classifiers: two windows (numbered after the tois),
\* each giving a train-time x test-time matrix.
EarlyMaintainEntry(g, events, n_times) ==
    [w \in 1..2 |->
        Arr(<<n_times, n_times>>,
            Val("angle_acc", g, AllTrials(events), Len(tois) + w))]

\* The last statement of the subject loop's body, and the loop's test.
EarlyMaintain ==
    /\ pc = "early_maintain"
    /\ results' = AppendTo("early_maintain",
                           EarlyMaintainEntry(Gat, Subevents, Len(times)))
    /\ IF s < Len(subjects)
       THEN s' = s + 1 /\ pc' = "load"
       ELSE s' = s /\ pc' = "save"
    /\ UNCHANGED <<base_path, inputs, dirs, store, a, times, bins, err,
                   lastPath, trace, artifact, rep>>

\* A Save under the name the reporting stage asks for.
SaveAnalysisAsRequested(analysis) == <<"target_probe">>

\* analysis + '-tuning'
SaveAnalysis(analysis) == analysis \o <<"-tuning">>

\* results['times'] = times; results['bins'] = bins
WithTimesAndBins(res, t, b) ==
    [k \in DOMAIN res \cup {"times", "bins"} |->
        IF k = "times" THEN t ELSE IF k = "bins" THEN b ELSE res[k]]

\* An artifact on disk: what it was asked for as, and its content.
Artifact(typ, subject, analysis, content) ==
    [typ |-> typ, subject |-> subject, analysis |-> analysis,
     content |-> content]

\* Save: the two assignments, the call of paths, the dump ('wb' replaces
\* an artifact of the same name), and the analysis loop's test.
Save ==
    /\ pc = "save"
    /\ results' = WithTimesAndBins(results, times, bins)
    /\ LET r == PathsCall("score", "fsaverage", SaveAnalysis(analysis_names[a]))
       IN /\ lastPath' = PathRecord(r)
          /\ dirs' = r.dirs
          /\ IF r.err # ""
             THEN /\ Raise(r.err, "save")
                  /\ UNCHANGED <<store, trace, a>>
             ELSE /\ store' =
                        { x \in store : x.analysis # r.analysis }
                        \cup {Artifact(r.typ, r.subject, r.analysis, results')}
                  /\ trace' = Append(trace, <<"dump", a, 0>>)
                  /\ err' = err
                  /\ IF a < Len(analysis_names)
                     THEN a' = a + 1 /\ pc' = "begin"
                     ELSE a' = a /\ pc' = "done"
    /\ UNCHANGED <<base_path, inputs, s, times, bins, artifact, rep>>

----------------------------------------------------------------------------
(* scripts/plot_decod_angles_bias.py *)

\* Visibility ratings for which a subject may have no value in the
\* aggregated bias arrays.
NanVis == {0, 3}

\* A float of the loaded arrays: NaN or a (small integer) number.
Num(x) == [nan |-> FALSE, v |-> x]
NaNf == [nan |-> TRUE, v |-> 0]

Neg(x) == IF x.nan THEN NaNf ELSE Num(0 - x.v)
Sub(x, y) == IF x.nan \/ y.nan THEN NaNf ELSE Num(x.v - y.v)

\* The artifact load('score', subject='fsaverage', analysis='target_probe')
\* asks for.
plot_request ==
    [typ |-> "score", subject |-> "fsaverage", analysis |-> <<"target_probe">>]

\* The keys of the loaded mapping the script reads.
plot_keys ==
    { "times", "tois", "bins", "tuning", "bias", "bias_pval", "bias_vis_toi",
      "bias_toi" }

\* Number of subjects of the loaded arrays (their first dimension).
NRows == NSubjects

\* results['bias_vis_toi'][i, TP, 1, vis, t]
bias_vis_toi(i, TP, vis, t) ==
    IF <<i, vis>> \in artifact.nan THEN NaNf
    ELSE Num(((i + vis + t) % 3) - 1 + TP)

\* results['bias_toi'][i, TP, 1, 3]
bias_toi(i, TP) ==
    IF \E vis \in NanVis : <<i, vis>> \in artifact.nan THEN NaNf
    ELSE Num((i % 2) + TP)

NotNan(x) == {i \in DOMAIN x : ~x[i].nan}

RECURSIVE SumOver(_, _)
SumOver(x, I) ==
    IF I = {} THEN 0
    ELSE LET i == CHOOSE j \in I : TRUE
         IN x[i].v + SumOver(x, I \ {i})

RECURSIVE SumSqOver(_, _)
SumSqOver(x, I) ==
    IF I = {} THEN 0
    ELSE LET i == CHOOSE j \in I : TRUE
         IN x[i].v * x[i].v + SumSqOver(x, I \ {i})

\* A mean or a standard deviation, by the moments that determine it: the
\* number of entries it is taken over, their sum and their sum of squares;
\* NaN when an entry it is taken over is NaN, or when there is none.
Moments(x, I) ==
    IF I = {} \/ \E i \in I : x[i].nan
    THEN [nan |-> TRUE, n |-> 0, sum |-> 0, sumsq |-> 0]
    ELSE [nan |-> FALSE, n |-> Cardinality(I), sum |-> SumOver(x, I),
          sumsq |-> SumSqOver(x, I)]

\* np.nanmean, np.nanstd: over the entries that are not NaN.
nanmean(x) == Moments(x, NotNan(x))
nanstd(x) == Moments(x, NotNan(x))

\* np.std: over every entry.
std(x) == Moments(x, DOMAIN x)

\* sum(~np.isnan(x))
count_not_nan(x) == Cardinality(NotNan(x))

\* wilcoxon(x)[1]: the p-value of the rank test on the array it is given.
wilcoxon(x) == [test |-> "wilcoxon", arg |-> x]

\* One aggregate across subjects: the array it is about, the p-value, the
\* mean, and the SEM as the standard deviation and the number under the
\* square root that divides it (0 when no SEM is computed).
Stat(where, x, p, m, sd, div) ==
    [where |-> where, x |-> x, p_val |-> p, m |-> m, s |-> sd, div |-> div]

\* -results['bias_vis_toi'][:, TP, 1, vis, t]
Score(TP, vis, t) == [i \in 1..NRows |-> Neg(bias_vis_toi(i, TP, vis, t))]

\* quick_stats(np.vstack(score).T): per visibility column
quick_stats(TP, t) ==
    { Stat("quick_stats", Score(TP, vis, t), wilcoxon(Score(TP, vis, t)),
           nanmean(Score(TP, vis, t)), nanstd(Score(TP, vis, t)), 0)
      : vis \in 0..3 }

\* A cell of the results table: wilcoxon, nanmean, nanstd / sqrt(sum(~isnan))
TableCell(score) ==
    Stat("table", score, wilcoxon(score), nanmean(score), nanstd(score),
         count_not_nan(score))

\* The cells of one toi: the four visibilities and max vis - min vis.
TableCells(TP, t) ==
    LET diff == [i \in 1..NRows |-> Sub(Score(TP, 3, t)[i], Score(TP, 0, t)[i])]
    IN {TableCell(Score(TP, vis, t)) : vis \in 0..3} \cup {TableCell(diff)}

\* report assymetry of target probe bias
Contrast ==
    LET diff == [i \in 1..NRows |-> Sub(bias_toi(i, 1), bias_toi(i, 0))]
    IN Stat("contrast", diff, wilcoxon(diff), nanmean(diff), nanstd(diff),
            count_not_nan(diff))

\* The number under the square root in sem = np.std(all_R) / np.sqrt(20)
RegressionN == 20

\* repeated_spearman(X.T, y.T): one coefficient per subject, NaN when one of
\* the subject's four values is.
all_R(t) ==
    [i \in 1..NRows |->
        IF \E vis \in 0..3 : bias_vis_toi(i, 0, vis, t).nan THEN NaNf
        ELSE Num(bias_vis_toi(i, 0, 3, t).v - bias_vis_toi(i, 0, 0, t).v)]

\* regression analyses, one toi
Regression(t) ==
    Stat("regression", all_R(t), wilcoxon(all_R(t)), nanmean(all_R(t)),
         std(all_R(t)), RegressionN)

\* A stimulus loop over the target only.
stimuli_target_only == <<"target">>

\* for TP, stimuli in enumerate(['target', 'probe'])
stimuli_list == <<"target", "probe">>

RepIdle == [pc |-> "idle", TP |-> 0, t |-> 0, report |-> << >>, saves |-> 0,
            stats |-> {}, err |-> ""]

\* report.add_figs_to_section(fig, section, subsection)
add_figs_to_section(section, subsection) ==
    Append(rep.report, <<"fig", section, subsection>>)

\* report.add_htmls_to_section(html, section, subsection)
add_htmls_to_section(section, subsection) ==
    Append(rep.report, <<"html", section, subsection>>)

\* Load data
RLoad ==
    /\ rep.pc = "load"
    /\ rep' = IF artifact.exists
              THEN [rep EXCEPT !.pc = "fig_tuning"]
              ELSE [rep EXCEPT !.pc = "error", !.err = "IOError"]
    /\ UNCHANGED <<aggVars, artifact>>

\* Plot tuning curve at probe time ...
FigTuning ==
    /\ rep.pc = "fig_tuning"
    /\ rep' = [rep EXCEPT !.pc = "fig_gat",
                 !.report = add_figs_to_section(<<"target_probe">>,
                                                "cross_generalization")]
    /\ UNCHANGED <<aggVars, artifact>>

\* Plot bias Temporal Generalization Matrices
FigGat ==
    /\ rep.pc = "fig_gat"
    /\ rep' = [rep EXCEPT !.pc = "fig_diagonal",
                 !.report = add_figs_to_section(<<"gat">>, "bias")]
    /\ UNCHANGED <<aggVars, artifact>>

\* Plot bias of TG diagonal; then the stimulus loop starts
FigDiagonal ==
    /\ rep.pc = "fig_diagonal"
    /\ rep' = [rep EXCEPT !.pc = "toi_stats", !.TP = 0, !.t = 1,
                 !.report = add_figs_to_section(<<"diagonal">>, "bias")]
    /\ UNCHANGED <<aggVars, artifact>>

\* One pass of: for t, (toi, ax) in enumerate(zip(tois, axes))
ToiStats ==
    /\ rep.pc = "toi_stats"
    /\ rep' = [rep EXCEPT
                 !.stats = quick_stats(rep.TP, rep.t) \cup TableCells(rep.TP, rep.t),
                 !.t = IF rep.t < Len(tois) THEN rep.t + 1 ELSE rep.t,
                 !.pc = IF rep.t < Len(tois) THEN "toi_stats" ELSE "fig_visibility"]
    /\ UNCHANGED <<aggVars, artifact>>

\* report.add_figs_to_section(fig, 'visibility_%s' % stimuli, 'bias')
FigVisibility ==
    /\ rep.pc = "fig_visibility"
    /\ rep' = [rep EXCEPT !.pc = "table",
                 !.report = add_figs_to_section(
                                <<"visibility_", stimuli_list[rep.TP + 1]>>,
                                "bias")]
    /\ UNCHANGED <<aggVars, artifact>>

\* report.add_htmls_to_section(table2html(table), stimuli, 'table'), and
\* the stimulus loop's test
Table ==
    /\ rep.pc = "table"
    /\ rep' = [rep EXCEPT
                 !.report = add_htmls_to_section(<<stimuli_list[rep.TP + 1]>>,
                                                 "table"),
                 !.TP = IF rep.TP + 1 < Len(stimuli_list) THEN rep.TP + 1
                        ELSE rep.TP,
                 !.t = 1,
                 !.pc = IF rep.TP + 1 < Len(stimuli_list) THEN "toi_stats"
                        ELSE "contrast"]
    /\ UNCHANGED <<aggVars, artifact>>

RContrast ==
    /\ rep.pc = "contrast"
    /\ rep' = [rep EXCEPT !.stats = {Contrast}, !.pc = "regression", !.t = 1]
    /\ UNCHANGED <<aggVars, artifact>>

\* One pass of: for toi in range(4)
RRegression ==
    /\ rep.pc = "regression"
    /\ rep' = [rep EXCEPT
                 !.stats = {Regression(rep.t)},
                 !.t = IF rep.t < 4 THEN rep.t + 1 ELSE rep.t,
                 !.pc = IF rep.t < 4 THEN "regression" ELSE "save"]
    /\ UNCHANGED <<aggVars, artifact>>

\* report.save()
ReportSave ==
    /\ rep.pc = "save"
    /\ rep' = [rep EXCEPT !.saves = @ + 1, !.pc = "done"]
    /\ UNCHANGED <<aggVars, artifact>>

----------------------------------------------------------------------------
(* Specifications *)

NoArtifact == [exists |-> FALSE, nan |-> {}]

\* The directories that hold the input artifacts.
InputDirs(base) ==
    UNION { LET d == Dirname(path_template(base, "decod", subjects[i], "erf",
                                           "target", analysis_names[1]).decod)
            IN {SubSeq(d, 1, k) : k \in 1..Len(d)} \ {EmptyPath}
            : i \in 1..Len(subjects) }

\* The aggregator, from the start of the script.
Init ==
    /\ base_path \in BasePaths
    /\ inputs \in [1..Len(analysis_names) -> [1..Len(subjects) -> EventTables]]
    /\ dirs = InputDirs(base_path)
    /\ store = {}
    /\ pc = "begin"
    /\ a = 1
    /\ s = 0
    /\ results = << >>
    /\ times = << >>
    /\ bins = << >>
    /\ err = NoError
    /\ lastPath = NoPath
    /\ trace = << >>
    /\ artifact = NoArtifact
    /\ rep = RepIdle

Next ==
    \/ BeginAnalysis
    \/ Load
    \/ Diagonal
    \/ AnglePred
    \/ Toi
    \/ Subscore
    \/ Duration
    \/ EarlyMaintain
    \/ Save

Spec == Init /\ [][Next]_vars

\* The reporting script, from its start, on a score artifact that another
\* stage has left (or not).
InitReport ==
    /\ base_path = EmptyPath
    /\ inputs = << >>
    /\ dirs = {}
    /\ store = {}
    /\ pc = "idle"
    /\ a = 1
    /\ s = 0
    /\ results = << >>
    /\ times = << >>
    /\ bins = << >>
    /\ err = NoError
    /\ lastPath = NoPath
    /\ trace = << >>
    /\ artifact \in {NoArtifact} \cup
           { [exists |-> TRUE, nan |-> n] : n \in SUBSET ((1..NRows) \X NanVis) }
    /\ rep = [RepIdle EXCEPT !.pc = "load"]

NextReport ==
    \/ RLoad
    \/ FigTuning
    \/ FigGat
    \/ FigDiagonal
    \/ ToiStats
    \/ FigVisibility
    \/ Table
    \/ RContrast
    \/ RRegression
    \/ ReportSave

SpecReport == InitReport /\ [][NextReport]_vars

----------------------------------------------------------------------------
(* Properties of the aggregator *)

\* The first k subjects have been through the whole body of the loop.
BodyBoundary ==
    \/ pc \in {"load", "save", "done"}
    \/ pc = "error" /\ err.at \in {"load", "save"}

Completed ==
    IF pc = "load" \/ (pc = "error" /\ err.at = "load") THEN s - 1 ELSE s

\* The Save step of analysis k has been executed.
SaveExecuted(k) ==
    \/ a > k
    \/ a = k /\ (pc = "done" \/ (pc = "error" /\ err.at = "save"))

HasKey(key) == key \in DOMAIN results

\* C1: in the subscore step, a subselection that matches no trial of the
\* subject is stored as an all-NaN array with one value per time sample
\* (the shape of the entry of a subselection that matches) under its name
\* and as a list of len(tois) NaNs under name + '_toi'; both keys of every
\* subselection are in every subject's mapping.
C1_EmptySubselectionIsNaN ==
    HasKey("subscore") =>
      \A i \in DOMAIN results["subscore"] :
        LET entry == results["subscore"][i]
        IN \A j \in DOMAIN subscores :
             LET name == subscores[j][1]
                 subsel == QueryIndex(inputs[a][i], subscores[j][2])
             IN /\ <<name, "">> \in DOMAIN entry
                /\ <<name, "_toi">> \in DOMAIN entry
                /\ entry[<<name, "">>].shape = <<NTimes>>
                /\ Len(entry[<<name, "_toi">>]) = Len(tois)
                /\ subsel = << >> =>
                     /\ entry[<<name, "">>].fill = NaN
                     /\ \A t \in 1..Len(tois) : entry[<<name, "_toi">>][t] = NaN

\* A subject with an empty and a matching subselection has been stored.
C1_Witness ==
    /\ HasKey("subscore")
    /\ \E i \in DOMAIN results["subscore"] :
         /\ QueryIndex(inputs[a][i], subscores[1][2]) = << >>
         /\ QueryIndex(inputs[a][i], subscores[2][2]) # << >>
         /\ results["subscore"][i][<<"seen", "">>].fill.nan

\* A stored value is NaN or a statistic of a non-empty trial selection.
OverTrials(fill) == fill.nan \/ fill.v[3] # << >>

\* C2: every condition-based selection that matches no trial stores a NaN
\* placeholder and goes on: the script is never ended by an exception of
\* the duration step, and no stored value is a statistic of an empty trial
\* set.
C2_EmptySelectionGivesPlaceholder ==
    /\ ~(pc = "error" /\ err.at = "duration")
    /\ HasKey("subscore") =>
         \A i \in DOMAIN results["subscore"] :
           \A k \in DOMAIN results["subscore"][i] :
             IF k[2] = "" THEN OverTrials(results["subscore"][i][k].fill)
             ELSE \A t \in 1..Len(tois) : OverTrials(results["subscore"][i][k][t])
    /\ HasKey("align_on_diag") =>
         \A i \in DOMAIN results["align_on_diag"] :
           \A t \in 1..Len(tois) : \A p \in 1..4 :
             OverTrials(results["align_on_diag"][i][t][p].fill)
    /\ HasKey("R_vis_duration") =>
         \A i \in DOMAIN results["R_vis_duration"] :
           \A t \in 1..Len(tois) :
             OverTrials(results["R_vis_duration"][i][t].fill)

\* The keys the body of the subject loop appends to.
AppendedKeys ==
    { "diagonal", "angle_pred", "toi", "subscore", "align_on_diag",
      "R_vis_duration", "early_maintain" }

\* The values an entry of results[key] is made of.
Fills(key, entry) ==
    CASE key = "diagonal" -> {entry.fill}
      [] key \in {"angle_pred", "toi", "R_vis_duration", "early_maintain"} ->
            {entry[j].fill : j \in DOMAIN entry}
      [] key = "subscore" ->
            {entry[k].fill : k \in {x \in DOMAIN entry : x[2] = ""}}
            \cup UNION { Range(entry[k]) : k \in {x \in DOMAIN entry : x[2] = "_toi"} }
      [] key = "align_on_diag" ->
            {entry[t][p].fill : t \in 1..Len(tois), p \in 1..4}

\* C3 as stated: once the loop body has finished for the k-th subject,
\* every list-valued key created at the start of the analysis has length k.
C3_EveryListHasOneEntryPerSubject ==
    (BodyBoundary /\ HasKey("diagonal")) =>
      \A key \in ResultKeys : Len(results[key]) = Completed

\* C3, amended: once the loop body has finished for the k-th subject, each
\* of the seven keys the body appends to has length k and its entry i was
\* computed from subjects[i] of the current analysis; the four other keys
\* created at the start stay empty.
C3_AppendedListsAligned ==
    (BodyBoundary /\ HasKey("diagonal")) =>
      /\ \A key \in AppendedKeys :
           /\ Len(results[key]) = Completed
           /\ \A i \in 1..Len(results[key]) :
                \A f \in Fills(key, results[key][i]) :
                  f.nan \/ f.v[2] = <<analysis_names[a][1], subjects[i]>>
      /\ \A key \in ResultKeys \ AppendedKeys : results[key] = << >>

\* Every subject is through the body, with different event tables among
\* them, one of them with an empty subselection.
C3_Witness ==
    /\ pc = "save"
    /\ Len(results["subscore"]) = Len(subjects)
    /\ \E i, j \in 1..Len(subjects) :
         /\ inputs[a][i] # inputs[a][j]
         /\ results["subscore"][i][<<"seen", "">>].fill.nan
         /\ ~results["subscore"][j][<<"seen", "">>].fill.nan

Dumps(k) == {n \in DOMAIN trace : trace[n] = <<"dump", k, 0>>}
Loads(k) == {n \in DOMAIN trace : trace[n][1] = "load" /\ trace[n][2] = k}

\* C4: the results of each analysis are written exactly once by its Save
\* step, after every subject of that analysis has been loaded and before
\* any subject of the next analysis is.
C4_SerializedOncePerAnalysis ==
    \A k \in 1..Len(analysis_names) :
      /\ Cardinality(Dumps(k)) <= 1
      /\ \A d \in Dumps(k) :
           /\ \A i \in 1..Len(subjects) :
                \E n \in Loads(k) : trace[n][3] = i /\ n < d
           /\ \A n \in Loads(k) : n < d
           /\ \A j \in 1..Len(analysis_names) :
                j > k => \A n \in Loads(j) : d < n
      /\ SaveExecuted(k) => Cardinality(Dumps(k)) = 1

\* The directories above the file a call of paths returned.
Ancestors(file) ==
    {SubSeq(Dirname(file), 1, k) : k \in 1..Len(Dirname(file))} \ {EmptyPath}

\* C5: a call of paths for a type of the template returns, and then every
\* ancestor directory of the returned file exists, whether base_path is
\* relative or absolute.
C5_PathsCreatesAncestors ==
    lastPath.typ \in TemplateKeys =>
      /\ lastPath.err = ""
      /\ \A d \in Ancestors(lastPath.file) : Exists(d, dirs)

\* C6: no request of the aggregator to paths ('decod', 'score') ends in a
\* lookup failure of the path template.
C6_AggregatorRequestsResolved ==
    lastPath.typ \in {"decod", "score"} => lastPath.err # "KeyError"

\* What an artifact, or a call of paths, is addressed by.
Address(x) == [typ |-> x.typ, subject |-> x.subject, analysis |-> x.analysis]

----------------------------------------------------------------------------
(* Properties of the reporting stage *)

\* The seven appends of a run, in order.
ExpectedReport ==
    << <<"fig", <<"target_probe">>, "cross_generalization">>,
       <<"fig", <<"gat">>, "bias">>,
       <<"fig", <<"diagonal">>, "bias">>,
       <<"fig", <<"visibility_", "target">>, "bias">>,
       <<"html", <<"target">>, "table">>,
       <<"fig", <<"visibility_", "probe">>, "bias">>,
       <<"html", <<"probe">>, "table">> >>

\* C8: the report is saved at most once, a run that reaches its end has
\* saved it once, and from the save on the report holds exactly the seven
\* appends (three fixed figures, then per stimulus a visibility figure and
\* a table): all of them precede the save and none follows it.
C8_SavedOnceAfterSevenAppends ==
    /\ rep.saves <= 1
    /\ rep.pc = "done" => rep.saves = 1
    /\ rep.saves = 1 => rep.report = ExpectedReport
    /\ rep.pc = "save" => rep.report = ExpectedReport

C8_Witness ==
    /\ rep.pc = "done"
    /\ rep.saves = 1
    /\ Len(rep.report) = 7

\* C9: every aggregate across subjects is taken over the subjects whose
\* value is not NaN: the rank test is given no NaN, the standard deviation
\* is over the non-NaN values, and the SEM divisor is the square root of
\* their number.
C9_AggregatesExcludeNaN ==
    \A st \in rep.stats :
      /\ \A i \in DOMAIN st.p_val.arg : ~st.p_val.arg[i].nan
      /\ st.m = nanmean(st.x)
      /\ st.s = nanstd(st.x)
      /\ st.div # 0 => st.div = count_not_nan(st.x)

====
